---- MODULE Spec2Model ----
(***************************************************************************)
(* The pending-change collection of watchman (src/PendingCollection.cpp):  *)
(* PendingCollectionBase (the prefix index tree_, the intrusive list       *)
(* pending_ of watchman_pending_fs entries, add / consolidate / prune /    *)
(* append / stealItems / drain) and the PendingCollection wrapper (mutex,  *)
(* condition variable, pinged_ flag, ping, lockAndWait).                   *)
(***************************************************************************)
EXTENDS Integers, Sequences, FiniteSets, TLC

\* Number of watchman_pending_fs objects that can be allocated at a time.
MaxEntries == 3

\* nullptr / empty shared_ptr / expired weak_ptr.
NULL == 0

Ids == 1..MaxEntries

\* The flag bits of kFlags, as members of a flag set (| is \cup, & is \cap).
W_PENDING_CRAWL_ONLY == "CRAWL_ONLY"
W_PENDING_RECURSIVE == "RECURSIVE"
W_PENDING_VIA_NOTIFY == "VIA_NOTIFY"
W_PENDING_IS_DESYNCED == "IS_DESYNCED"

kFlags ==
  {W_PENDING_CRAWL_ONLY, W_PENDING_RECURSIVE, W_PENDING_VIA_NOTIFY,
   W_PENDING_IS_DESYNCED}

\* Paths are byte strings: sequences of one-character strings.  The stored
\* keys in the byte order in which the index iterates them.
KeyOrder ==
  << <<"/", "a">>,
     <<"/", "a", "/", "b">>,
     <<"/", "a", "/", "b", "/", "c">>,
     <<"/", "a", "/", "k">>,
     <<"/", "a", "b">> >>

AllPaths == {KeyOrder[i] : i \in DOMAIN KeyOrder}

\* The two collections: the shared one behind the PendingCollection lock and
\* a private staging collection that is merged into it with append.
Colls == {"main", "staging"}

----------------------------------------------------------------------------
\* Helpers outside src/PendingCollection.cpp.

\* is_slash(c): c is a path separator.
is_slash(c) == c = "/"

\* The prefix that marks the base name of a synchronization cookie.
kCookiePrefix == <<"k">>

RECURSIVE LastSlash(_, _)
LastSlash(path, i) ==
  IF i = 0 THEN 0
  ELSE IF is_slash(path[i]) THEN i ELSE LastSlash(path, i - 1)

baseName(path) == SubSeq(path, LastSlash(path, Len(path)) + 1, Len(path))

startsWith(s, prefix) ==
  /\ Len(prefix) <= Len(s)
  /\ SubSeq(s, 1, Len(prefix)) = prefix

\* CookieSync::isPossiblyACookie(path): the base name starts with the
\* cookie prefix.
isPossiblyACookie(path) == startsWith(baseName(path), kCookiePrefix)

----------------------------------------------------------------------------
\* The prefix index (art_tree), a map from key to entry; NULL is "no leaf".

NoLeaf == << >>

art_clear == [k \in AllPaths |-> NULL]

art_search(tree, key) == tree[key]

art_insert(tree, key, p) == [tree EXCEPT ![key] = p]

art_erase(tree, key) == [tree EXCEPT ![key] = NULL]

art_size(tree) == Cardinality({k \in AllPaths : tree[k] # NULL})

\* longestMatch: the stored key that is the longest byte prefix of key.
art_longestMatch(tree, key) ==
  LET cands == {k \in AllPaths : tree[k] # NULL /\ startsWith(key, k)}
  IN  IF cands = {} THEN NoLeaf
      ELSE CHOOSE k \in cands : \A o \in cands : Len(o) <= Len(k)

\* iterPrefix visits, in key order, the stored keys that have prefix as a
\* byte prefix: the sequence of keys one scan would visit.
art_iterPrefix(tree, prefix) ==
  SelectSeq(KeyOrder, LAMBDA k : tree[k] # NULL /\ startsWith(k, prefix))

----------------------------------------------------------------------------
\* watchman_pending_fs objects.  heap[i].live is FALSE for a slot that holds
\* no object.

FreeEntry ==
  [live |-> FALSE, path |-> NoLeaf, now |-> 0, flags |-> {},
   next |-> NULL, prev |-> NULL]

\* watchman_pending_fs::watchman_pending_fs(path, now, flags)
watchman_pending_fs(path, now, flags) ==
  [live |-> TRUE, path |-> path, now |-> now, flags |-> flags,
   next |-> NULL, prev |-> NULL]

FreeIds(heap) == {i \in Ids : ~heap[i].live}

\* std::make_shared: the slot the new object gets.
make_shared(heap) == CHOOSE i \in FreeIds(heap) : \A j \in FreeIds(heap) : i <= j

\* The last shared_ptr to p goes away: the object is destroyed (and with it
\* the chain it owns through next), weak prev references to it expire.
RECURSIVE destroy(_, _)
destroy(heap, p) ==
  IF p = NULL THEN heap
  ELSE LET n == heap[p].next
           h == [i \in Ids |->
                   IF i = p THEN FreeEntry
                   ELSE IF heap[i].prev = p THEN [heap[i] EXCEPT !.prev = NULL]
                   ELSE heap[i]]
       IN  destroy(h, n)

\* The entries reachable from p by following next, head first.
RECURSIVE Chain(_, _, _)
Chain(heap, p, fuel) ==
  IF p = NULL \/ fuel = 0 THEN << >>
  ELSE <<p>> \o Chain(heap, heap[p].next, fuel - 1)

ListOf(heap, p) == Chain(heap, p, MaxEntries + 1)

Range(s) == {s[i] : i \in DOMAIN s}

----------------------------------------------------------------------------
\* PendingCollectionBase.  The operations work on m = [heap, pending, tree]:
\* the objects, the collection's pending_ and its tree_.

\* is_path_prefix as a raw byte-prefix test, without the separator check.
is_path_prefix_raw(path, path_len, other, common_prefix) ==
  common_prefix <= path_len

is_path_prefix(path, path_len, other, common_prefix) ==
  IF common_prefix > path_len THEN FALSE
  ELSE IF common_prefix = path_len THEN TRUE
  ELSE is_slash(path[common_prefix + 1])

\* unlinkItem that forgets to move the list head off p.
unlinkItem_keepHead(m, p) ==
  LET e == m.heap[p]
      prev == e.prev
      h1 == IF prev # NULL THEN [m.heap EXCEPT ![prev].next = e.next] ELSE m.heap
      h2 == IF e.next # NULL THEN [h1 EXCEPT ![e.next].prev = prev] ELSE h1
      h3 == [h2 EXCEPT ![p].next = NULL, ![p].prev = NULL]
  IN  [m EXCEPT !.heap = h3]

unlinkItem(m, p) ==
  LET e == m.heap[p]
      pend == IF m.pending = p THEN e.next ELSE m.pending
      prev == e.prev
      h1 == IF prev # NULL THEN [m.heap EXCEPT ![prev].next = e.next] ELSE m.heap
      h2 == IF e.next # NULL THEN [h1 EXCEPT ![e.next].prev = prev] ELSE h1
      h3 == [h2 EXCEPT ![p].next = NULL, ![p].prev = NULL]
  IN  [m EXCEPT !.heap = h3, !.pending = pend]

\* linkHead that links p behind the last entry instead.
linkHead_tail(m, p) ==
  LET list == ListOf(m.heap, m.pending)
      tail == IF list = << >> THEN NULL ELSE list[Len(list)]
      h1 == [m.heap EXCEPT ![p].prev = tail, ![p].next = NULL]
      h2 == IF tail # NULL THEN [h1 EXCEPT ![tail].next = p] ELSE h1
  IN  [m EXCEPT !.heap = h2, !.pending = IF tail = NULL THEN p ELSE m.pending]

linkHead(m, p) ==
  LET h1 == [m.heap EXCEPT ![p].prev = NULL, ![p].next = m.pending]
      h2 == IF h1[p].next # NULL THEN [h1 EXCEPT ![h1[p].next].prev = p] ELSE h1
  IN  [m EXCEPT !.heap = h2, !.pending = p]

\* The callback of maybePruneObsoletedChildren: does it remove (key, p)?
pruneCallback(m, path, key, p) ==
  /\ W_PENDING_CRAWL_ONLY \notin m.heap[p].flags
  /\ Len(key) > Len(path)
  /\ is_path_prefix(key, Len(key), path, Len(path))
  /\ ~isPossiblyACookie(m.heap[p].path)

\* A scan whose callback erases the key from the index and does not unlink
\* the entry from the list.
iterPrefix_noUnlink(m, path) ==
  LET keys == art_iterPrefix(m.tree, path)
      hits == SelectSeq(keys, LAMBDA k : pruneCallback(m, path, k, m.tree[k]))
  IN  IF hits = << >> THEN [m |-> m, ret |-> 0]
      ELSE [m |-> [m EXCEPT !.tree = art_erase(m.tree, hits[1])], ret |-> 1]

\* One tree_.iterPrefix(path, callback): the scan stops at the first key the
\* callback removes (ret = 1) or visits every key (ret = 0).
iterPrefix(m, path) ==
  LET keys == art_iterPrefix(m.tree, path)
      hits == SelectSeq(keys, LAMBDA k : pruneCallback(m, path, k, m.tree[k]))
  IN  IF hits = << >> THEN [m |-> m, ret |-> 0]
      ELSE LET key == hits[1]
               p == m.tree[key]
               m1 == unlinkItem(m, p)
               m2 == [m1 EXCEPT !.tree = art_erase(m1.tree, key),
                                !.heap = destroy(m1.heap, p)]
           IN  [m |-> m2, ret |-> 1]

\* The pruning loop as a single scan, without the restart.
pruneLoop_once(m, path, pruned) ==
  LET r == iterPrefix(m, path)
  IN  [m |-> r.m, pruned |-> pruned + r.ret]

\* The loop "while (tree_.iterPrefix(...)) ++pruned".
RECURSIVE pruneLoop(_, _, _)
pruneLoop(m, path, pruned) ==
  LET r == iterPrefix(m, path)
  IN  IF r.ret # 0 THEN pruneLoop(r.m, path, pruned + 1)
      ELSE [m |-> m, pruned |-> pruned]

\* The collection before each scan of the loop and after the last one.
RECURSIVE pruneScans(_, _)
pruneScans(m, path) ==
  LET r == iterPrefix(m, path)
  IN  IF r.ret # 0 THEN <<m>> \o pruneScans(r.m, path) ELSE <<m>>

\* maybePruneObsoletedChildren that prunes for every RECURSIVE entry, also
\* one that is CRAWL_ONLY.
maybePruneObsoletedChildren_anyRecursive(m, path, flags) ==
  IF W_PENDING_RECURSIVE \in flags THEN pruneLoop(m, path, 0).m ELSE m

maybePruneObsoletedChildren(m, path, flags) ==
  IF flags \cap {W_PENDING_RECURSIVE, W_PENDING_CRAWL_ONLY} = {W_PENDING_RECURSIVE}
  THEN pruneLoop(m, path, 0).m
  ELSE m

\* consolidateItem that ORs every flag of the new notification in.
consolidateItem_allFlags(m, p, flags) ==
  LET h == [m.heap EXCEPT ![p].flags = @ \cup flags]
  IN  maybePruneObsoletedChildren([m EXCEPT !.heap = h], h[p].path, h[p].flags)

\* consolidateItem that merges the flags and prunes nothing.
consolidateItem_noPrune(m, p, flags) ==
  [m EXCEPT !.heap[p].flags =
     @ \cup (flags \cap {W_PENDING_CRAWL_ONLY, W_PENDING_RECURSIVE,
                         W_PENDING_IS_DESYNCED})]

consolidateItem(m, p, flags) ==
  LET h == [m.heap EXCEPT ![p].flags =
              @ \cup (flags \cap {W_PENDING_CRAWL_ONLY, W_PENDING_RECURSIVE,
                                  W_PENDING_IS_DESYNCED})]
  IN  maybePruneObsoletedChildren([m EXCEPT !.heap = h], h[p].path, h[p].flags)

\* isObsoletedByContainingDir without the exemption of cookies.
isObsoletedByContainingDir_noCookie(m, path) ==
  LET leaf == art_longestMatch(m.tree, path)
  IN  IF leaf = NoLeaf THEN FALSE
      ELSE /\ W_PENDING_RECURSIVE \in m.heap[m.tree[leaf]].flags
           /\ is_path_prefix(path, Len(path), leaf, Len(leaf))

isObsoletedByContainingDir(m, path) ==
  LET leaf == art_longestMatch(m.tree, path)
  IN  IF leaf = NoLeaf THEN FALSE
      ELSE LET p == m.tree[leaf]
           IN  IF /\ W_PENDING_RECURSIVE \in m.heap[p].flags
                  /\ is_path_prefix(path, Len(path), leaf, Len(leaf))
               THEN ~isPossiblyACookie(path)
               ELSE FALSE

\* Which of its three ways add(path, ...) takes.
addOutcome(m, path) ==
  IF art_search(m.tree, path) # NULL THEN "consolidate"
  ELSE IF isObsoletedByContainingDir(m, path) THEN "obsoleted"
  ELSE "insert"

AddOutcomes == {"consolidate", "obsoleted", "insert"}

\* add that stamps a consolidated entry with the time of the new
\* notification.
add_latestTime(m, path, now, flags) ==
  LET existing == art_search(m.tree, path)
  IN  IF existing # NULL
      THEN consolidateItem([m EXCEPT !.heap[existing].now = now], existing, flags)
      ELSE IF isObsoletedByContainingDir(m, path) THEN m
      ELSE LET p == make_shared(m.heap)
               m1 == [m EXCEPT !.heap[p] = watchman_pending_fs(path, now, flags)]
               m2 == maybePruneObsoletedChildren(m1, path, flags)
               m3 == [m2 EXCEPT !.tree = art_insert(m2.tree, path, p)]
           IN  linkHead(m3, p)

add(m, path, now, flags) ==
  LET existing == art_search(m.tree, path)
  IN  IF existing # NULL THEN consolidateItem(m, existing, flags)
      ELSE IF isObsoletedByContainingDir(m, path) THEN m
      ELSE LET p == make_shared(m.heap)
               m1 == [m EXCEPT !.heap[p] = watchman_pending_fs(path, now, flags)]
               m2 == maybePruneObsoletedChildren(m1, path, flags)
               m3 == [m2 EXCEPT !.tree = art_insert(m2.tree, path, p)]
           IN  linkHead(m3, p)

\* The loop of append without the pruning of the children of an inserted
\* entry.
RECURSIVE appendLoop_noPrune(_, _)
appendLoop_noPrune(m, p) ==
  IF p = NULL THEN m
  ELSE LET e == m.heap[p]
           next == e.next
           target_p == art_search(m.tree, e.path)
           drop(mm) == [mm EXCEPT !.heap =
                          destroy([mm.heap EXCEPT ![p].next = NULL], p)]
       IN  IF target_p # NULL
           THEN appendLoop_noPrune(drop(consolidateItem(m, target_p, e.flags)), next)
           ELSE IF isObsoletedByContainingDir(m, e.path)
           THEN appendLoop_noPrune(drop(m), next)
           ELSE LET m2 == [m EXCEPT !.heap[p].next = NULL]
                    m3 == [m2 EXCEPT !.tree = art_insert(m2.tree, e.path, p)]
                IN  appendLoop_noPrune(linkHead(m3, p), next)

\* The loop of append over the chain p stolen from src.
RECURSIVE appendLoop(_, _)
appendLoop(m, p) ==
  IF p = NULL THEN m
  ELSE LET e == m.heap[p]
           next == e.next
           target_p == art_search(m.tree, e.path)
           \* p = std::move(p->next): the entry p is dropped.
           drop(mm) == [mm EXCEPT !.heap =
                          destroy([mm.heap EXCEPT ![p].next = NULL], p)]
       IN  IF target_p # NULL
           THEN appendLoop(drop(consolidateItem(m, target_p, e.flags)), next)
           ELSE IF isObsoletedByContainingDir(m, e.path)
           THEN appendLoop(drop(m), next)
           ELSE LET m1 == maybePruneObsoletedChildren(m, e.path, e.flags)
                    m2 == [m1 EXCEPT !.heap[p].next = NULL]
                    m3 == [m2 EXCEPT !.tree = art_insert(m2.tree, e.path, p)]
                IN  appendLoop(linkHead(m3, p), next)

----------------------------------------------------------------------------
\* The state.

VARIABLES
  heap,        \* the watchman_pending_fs objects, by slot
  pending_,    \* per collection: the list head
  tree_,       \* per collection: the prefix index, key -> entry
  pinged_,     \* PendingCollection::pinged_ of the shared collection
  lockHolder,  \* the thread that holds the mutex of the shared collection
  pc,          \* per thread: where it is
  timeoutms,   \* per thread: the timeout of its lockAndWait call
  pinged,      \* per thread: the out-parameter of its last lockAndWait
  stolen,      \* per thread: the heads of the chains that its stealItems
               \* calls returned and that it still holds
  last         \* the call on the collection that completed last, and what
               \* it returned

vars ==
  <<heap, pending_, tree_, pinged_, lockHolder, pc, timeoutms, pinged, stolen,
    last>>

\* All threads of all specifications.
AllThreads == {"t1", "t2", "t3"}

NoThread == "none"

\* timeoutms.count() == -1 means "no timeout".
NoTimeout == -1

Timeouts == {NoTimeout, 1}

\* The record of a completed operation: its name, collection and path (of
\* an append: the path of the first entry of the source), the boolean it
\* returned and the number of entries it pruned.
Op(op, c, path, ret) ==
  [op |-> op, c |-> c, path |-> path, ret |-> ret, pruned |-> 0]

\* The view m of collection c that the operations of the collection work on.
M(c) == [heap |-> heap, pending |-> pending_[c], tree |-> tree_[c]]

\* Objects are named by their rank of creation among the objects that
\* exist: make_shared gives a new object the slot after them, and when
\* objects are destroyed the others move down, keeping their order.  order
\* lists the slots of h, the objects first; pi is where each slot goes.
Slots == [i \in Ids |-> i]

Compact(h) ==
  LET order == SelectSeq(Slots, LAMBDA i : h[i].live)
                 \o SelectSeq(Slots, LAMBDA i : ~h[i].live)
      pi == [i \in Ids |-> CHOOSE j \in Ids : order[j] = i]
  IN  [order |-> order, pi |-> pi]

\* The state after an operation that leaves the objects h, the list heads
\* pend, the indexes tree and the stolen chains stol.
Commit(h, pend, tree, stol) ==
  \E k \in {Compact(h)} :
    LET ren(x) == IF x = NULL THEN NULL ELSE k.pi[x]
    IN  /\ heap' = [j \in Ids |->
                      [h[k.order[j]] EXCEPT !.next = ren(@), !.prev = ren(@)]]
        /\ pending_' = [c \in Colls |-> ren(pend[c])]
        /\ tree_' = [c \in Colls |-> [key \in AllPaths |-> ren(tree[c][key])]]
        /\ stolen' = [t \in AllThreads |-> {ren(x) : x \in stol[t]}]

\* Write the result m of an operation on collection c back.
Store(c, m) ==
  \E r \in {m} :
    Commit(r.heap, [pending_ EXCEPT ![c] = r.pending],
           [tree_ EXCEPT ![c] = r.tree], stolen)

\* Thread t may operate on collection c: it holds the lock of the shared
\* collection, or c is the staging collection, a PendingCollectionBase of
\* its own without a lock, and t is not inside a call of the wrapper.
Holds(t, c) ==
  IF c = "main" THEN lockHolder = t /\ pc[t] = "locked"
  ELSE pc[t] \in {"idle", "locked"}

Init ==
  /\ heap = [i \in Ids |-> FreeEntry]
  /\ pending_ = [c \in Colls |-> NULL]
  /\ tree_ = [c \in Colls |-> art_clear]
  /\ pinged_ = FALSE
  /\ lockHolder = NoThread
  /\ pc = [t \in AllThreads |-> "idle"]
  /\ timeoutms = [t \in AllThreads |-> NoTimeout]
  /\ pinged = [t \in AllThreads |-> FALSE]
  /\ stolen = [t \in AllThreads |-> {}]
  /\ last = Op("init", "main", NoLeaf, FALSE)

\* this->lock()
Lock(t) ==
  /\ pc[t] = "idle"
  /\ lockHolder = NoThread
  /\ lockHolder' = t
  /\ pc' = [pc EXCEPT ![t] = "locked"]
  /\ UNCHANGED <<heap, pending_, tree_, pinged_, timeoutms, pinged, stolen, last>>

\* The LockedPtr goes out of scope.  The caller keeps the out-parameter of
\* lockAndWait; the timeout of the call is gone.
Unlock(t) ==
  /\ pc[t] = "locked"
  /\ lockHolder = t
  /\ lockHolder' = NoThread
  /\ pc' = [pc EXCEPT ![t] = "idle"]
  /\ timeoutms' = [timeoutms EXCEPT ![t] = NoTimeout]
  /\ UNCHANGED <<heap, pending_, tree_, pinged_, pinged, stolen, last>>

\* An add that notifies the condition variable when it is done.
Add_notify(t, c, path, now, flags) ==
  /\ Holds(t, c)
  /\ addOutcome(M(c), path) = "insert" => FreeIds(heap) # {}
  /\ \E m \in {add(M(c), path, now, flags)} :
     LET outcome == addOutcome(M(c), path)
         grown == IF outcome = "insert" THEN 1 ELSE 0
     IN  /\ Store(c, m)
         /\ last' = [Op(outcome, c, path, FALSE) EXCEPT
                       !.pruned = art_size(tree_[c]) + grown - art_size(m.tree)]
  /\ pc' = [u \in AllThreads |-> IF pc[u] = "blocked" THEN "woken" ELSE pc[u]]
  /\ UNCHANGED <<pinged_, lockHolder, timeoutms, pinged>>

\* PendingCollectionBase::add(path, now, flags) on collection c.
Add(t, c, path, now, flags) ==
  /\ Holds(t, c)
  /\ addOutcome(M(c), path) = "insert" => FreeIds(heap) # {}
  /\ \E m \in {add(M(c), path, now, flags)} :
     LET outcome == addOutcome(M(c), path)
         grown == IF outcome = "insert" THEN 1 ELSE 0
     IN  /\ Store(c, m)
         /\ last' = [Op(outcome, c, path, FALSE) EXCEPT
                       !.pruned = art_size(tree_[c]) + grown - art_size(m.tree)]
  /\ UNCHANGED <<pinged_, lockHolder, pc, timeoutms, pinged>>

\* stealItems that clears the index and leaves the list head in place.
stealItems_keepHead(m) == [m |-> [m EXCEPT !.tree = art_clear], ret |-> m.pending]

\* stealItems that hands out the list head and keeps list and index.
stealItems_copy(m) == [m |-> m, ret |-> m.pending]

\* PendingCollectionBase::stealItems() on the shared collection.
stealItems(m) == [m |-> [m EXCEPT !.tree = art_clear, !.pending = NULL],
                  ret |-> m.pending]

\* The caller keeps the chain that is returned, next to the chains it holds
\* from earlier calls; an empty pointer is no chain.
StealItems(t) ==
  /\ Holds(t, "main")
  /\ \E r \in {stealItems(M("main"))} :
         Commit(r.m.heap,
                [pending_ EXCEPT !["main"] = r.m.pending],
                [tree_ EXCEPT !["main"] = r.m.tree],
                [stolen EXCEPT ![t] = @ \cup ({r.ret} \ {NULL})])
  /\ last' = Op("stealItems", "main", NoLeaf, FALSE)
  /\ UNCHANGED <<pinged_, lockHolder, pc, timeoutms, pinged>>

\* The consumer is done with one of the chains it holds: the chain is
\* destroyed.
Release(t) ==
  /\ \E p \in stolen[t] :
       Commit(destroy(heap, p), pending_, tree_,
              [stolen EXCEPT ![t] = @ \ {p}])
  /\ last' = Op("release", "main", NoLeaf, FALSE)
  /\ UNCHANGED <<pinged_, lockHolder, pc, timeoutms, pinged>>

\* PendingCollectionBase::drain()
drain(m) == [m EXCEPT !.heap = destroy(m.heap, m.pending),
                      !.pending = NULL, !.tree = art_clear]

Drain(t, c) ==
  /\ Holds(t, c)
  /\ Store(c, drain(M(c)))
  /\ last' = Op("drain", c, NoLeaf, FALSE)
  /\ UNCHANGED <<pinged_, lockHolder, pc, timeoutms, pinged>>

\* PendingCollectionBase::append(src): the staging collection is merged into
\* the shared one; the caller owns both.
append(m, src) ==
  LET r == stealItems(src) IN [m |-> appendLoop(m, r.ret), src |-> r.m]

AppendStaging(t) ==
  /\ Holds(t, "main")
  /\ \E r \in {append(M("main"), M("staging"))} :
         /\ Commit(r.m.heap,
                   [pending_ EXCEPT !["main"] = r.m.pending,
                                    !["staging"] = r.src.pending],
                   [tree_ EXCEPT !["main"] = r.m.tree, !["staging"] = r.src.tree],
                   stolen)
         /\ last' = [Op("append", "main",
                        IF pending_["staging"] = NULL THEN NoLeaf
                        ELSE heap[pending_["staging"]].path, FALSE) EXCEPT
                       !.pruned = Cardinality({k \in AllPaths :
                                    /\ tree_["main"][k] # NULL
                                    /\ r.m.tree[k] = NULL})]
  /\ UNCHANGED <<pinged_, lockHolder, pc, timeoutms, pinged>>

\* Where a thread is that has left the wait and has yet to get the mutex
\* back: "woken" by the latest notification, "woken_earlier" by one before
\* it, "timedout", or "spurious" when it has left the wait without cause.
Woken == {"woken", "woken_earlier", "timedout", "spurious"}

\* A notification that wakes one of the blocked threads only (notify_one).
notify_all_one(pcs) ==
  LET one == CHOOSE t \in AllThreads :
               (\E u \in AllThreads : pcs[u] = "blocked") => pcs[t] = "blocked"
  IN  [t \in AllThreads |->
         IF pcs[t] = "blocked" /\ t = one THEN "woken"
         ELSE IF pcs[t] = "woken" THEN "woken_earlier"
         ELSE pcs[t]]

\* cond_.notify_all(): every thread blocked in cond_.wait is woken.
notify_all(pcs) ==
  [t \in AllThreads |->
     IF pcs[t] = "blocked" THEN "woken"
     ELSE IF pcs[t] = "woken" THEN "woken_earlier"
     ELSE pcs[t]]

\* PendingCollectionBase::ping(), called through the LockedPtr.
BasePing(t) ==
  /\ Holds(t, "main")
  /\ pinged_' = TRUE
  /\ pc' = notify_all(pc)
  /\ last' = Op("ping", "main", NoLeaf, FALSE)
  /\ UNCHANGED <<heap, pending_, tree_, lockHolder, timeoutms, pinged, stolen>>

\* PendingCollection::ping(), without the lock: pinged_ = true ...
Ping(t) ==
  /\ pc[t] = "idle"
  /\ pinged_' = TRUE
  /\ pc' = [pc EXCEPT ![t] = "ping_notify"]
  /\ last' = Op("ping", "main", NoLeaf, FALSE)
  /\ UNCHANGED <<heap, pending_, tree_, lockHolder, timeoutms, pinged, stolen>>

\* ... and then cond_.notify_all().
PingNotify(t) ==
  /\ pc[t] = "ping_notify"
  /\ pc' = [notify_all(pc) EXCEPT ![t] = "idle"]
  /\ UNCHANGED <<heap, pending_, tree_, pinged_, lockHolder, timeoutms, pinged,
                 stolen, last>>

\* checkAndResetPinged that looks at the flag alone, not at the list.
checkAndResetPinged_flagOnly(pend, flag) ==
  IF flag THEN [pinged_ |-> FALSE, ret |-> TRUE]
  ELSE [pinged_ |-> flag, ret |-> FALSE]

\* checkAndResetPinged that reports the flag and leaves it set.
checkAndResetPinged_keepFlag(pend, flag) ==
  [pinged_ |-> flag, ret |-> pend # NULL \/ flag]

\* PendingCollectionBase::checkAndResetPinged()
checkAndResetPinged(pend, flag) ==
  IF pend # NULL \/ flag THEN [pinged_ |-> FALSE, ret |-> TRUE]
  ELSE [pinged_ |-> flag, ret |-> FALSE]

CheckAndResetPinged(t) ==
  /\ Holds(t, "main")
  /\ LET r == checkAndResetPinged(pending_["main"], pinged_)
     IN  /\ pinged_' = r.pinged_
         /\ last' = Op("checkAndResetPinged", "main", NoLeaf, r.ret)
  /\ UNCHANGED <<heap, pending_, tree_, lockHolder, pc, timeoutms, pinged, stolen>>

\* PendingCollection::lockAndWait, lines 322-327: take the lock and check.
\* (Between the two only pinged_ can change, by a ping that does not take
\* the lock; the check then sees that ping as if it had come first.)
LockAndWait(t, timeout) ==
  /\ pc[t] = "idle"
  /\ lockHolder = NoThread
  /\ lockHolder' = t
  /\ LET r == checkAndResetPinged(pending_["main"], pinged_)
     IN  /\ pinged_' = r.pinged_
         /\ IF r.ret
            THEN /\ pinged' = [pinged EXCEPT ![t] = TRUE]
                 /\ pc' = [pc EXCEPT ![t] = "locked"]
                 /\ last' = Op("lockAndWait", "main", NoLeaf, TRUE)
                 /\ UNCHANGED timeoutms
            ELSE /\ pc' = [pc EXCEPT ![t] = "lw_wait"]
                 /\ timeoutms' = [timeoutms EXCEPT ![t] = timeout]
                 /\ UNCHANGED <<pinged, last>>
  /\ UNCHANGED <<heap, pending_, tree_, stolen>>

\* A wait that blocks without releasing the lock.
Wait_keepLock(t) ==
  /\ pc[t] = "lw_wait"
  /\ lockHolder = t
  /\ pc' = [pc EXCEPT ![t] = "blocked"]
  /\ UNCHANGED <<heap, pending_, tree_, pinged_, lockHolder, timeoutms, pinged,
                 stolen, last>>

\* Lines 329-333: cond_.wait / cond_.wait_for releases the lock and blocks.
\* A blocked thread leaves the wait by a notification, by its timeout, or
\* without cause.
Wait(t) ==
  /\ pc[t] = "lw_wait"
  /\ lockHolder = t
  /\ lockHolder' = NoThread
  /\ pc' = [pc EXCEPT ![t] = "blocked"]
  /\ UNCHANGED <<heap, pending_, tree_, pinged_, timeoutms, pinged, stolen, last>>

\* cond_.wait_for: the timeout elapses.
Timeout(t) ==
  /\ pc[t] = "blocked"
  /\ timeoutms[t] # NoTimeout
  /\ pc' = [pc EXCEPT ![t] = "timedout"]
  /\ UNCHANGED <<heap, pending_, tree_, pinged_, lockHolder, timeoutms, pinged,
                 stolen, last>>

\* cond_.wait / cond_.wait_for, called without a predicate, may end with
\* neither a notification nor the timeout: a spurious wakeup.
SpuriousWake(t) ==
  /\ pc[t] = "blocked"
  /\ pc' = [pc EXCEPT ![t] = "spurious"]
  /\ UNCHANGED <<heap, pending_, tree_, pinged_, lockHolder, timeoutms, pinged,
                 stolen, last>>

\* The wait returns with the lock reacquired; line 335 checks again and
\* lockAndWait returns.
Wake(t) ==
  /\ pc[t] \in Woken
  /\ lockHolder = NoThread
  /\ lockHolder' = t
  /\ LET r == checkAndResetPinged(pending_["main"], pinged_)
     IN  /\ pinged_' = r.pinged_
         /\ pinged' = [pinged EXCEPT ![t] = r.ret]
         /\ last' = Op("lockAndWait:woken", "main", NoLeaf, r.ret)
  /\ pc' = [pc EXCEPT ![t] = "locked"]
  /\ UNCHANGED <<heap, pending_, tree_, timeoutms, stolen>>

----------------------------------------------------------------------------
\* The specifications.  Each draws the inputs of add from its own sets, so
\* that each stays small where the others are wide.

\* A thread that takes the lock and works on the collections C, with paths P,
\* flag sets F and timestamps N.
CollectionStep(t, C, P, F, N) ==
  \/ Lock(t)
  \/ Unlock(t)
  \/ \E c \in C, path \in P, now \in N, flags \in F : Add(t, c, path, now, flags)
  \/ \E c \in C : Drain(t, c)

\* A thread that takes the entries of the shared collection away and lets
\* go of them.
HeldStep(t) ==
  \/ StealItems(t)
  \/ Release(t)

\* Spec: the shared collection alone, every path, every combination of the
\* two flags that decide obsoletion and pruning.
PruneFlags == SUBSET {W_PENDING_RECURSIVE, W_PENDING_CRAWL_ONLY}

Next == CollectionStep("t1", {"main"}, AllPaths, PruneFlags, {1})

Spec == Init /\ [][Next]_vars

\* SpecFlags: a directory and its child, every flag set.
FlagPaths == {KeyOrder[1], KeyOrder[2]}

FlagTimes == {1}

NextFlags == CollectionStep("t1", {"main"}, FlagPaths, SUBSET kFlags, FlagTimes)

SpecFlags == Init /\ [][NextFlags]_vars

\* SpecAppend: the shared and the staging collection, a directory, its child
\* and a cookie in it, plain and RECURSIVE notifications.
AppendPaths == {KeyOrder[1], KeyOrder[2], KeyOrder[4]}

AppendFlags == {{}, {W_PENDING_RECURSIVE}}

\* The adds of SpecAppend: the directory plain and RECURSIVE, the child and
\* the cookie plain (RECURSIVE on them would obsolete and prune nothing).
AppendAdds ==
  {<<p, f>> \in AppendPaths \X AppendFlags : p = KeyOrder[1] \/ f = {}}

NextAppend ==
  \/ Lock("t1")
  \/ Unlock("t1")
  \/ \E c \in Colls, a \in AppendAdds : Add("t1", c, a[1], 1, a[2])
  \/ \E c \in Colls : Drain("t1", c)
  \/ HeldStep("t1")
  \/ AppendStaging("t1")

SpecAppend == Init /\ [][NextAppend]_vars

\* SpecMulti: two threads that each take the lock and add to the shared
\* collection, steal from it and drain it, one of them also filling the
\* staging collection and appending it; a directory, plain and RECURSIVE,
\* and its child.
MultiThreads == {"t1", "t2"}

MultiAdds == {a \in AppendAdds : a[1] \in {KeyOrder[1], KeyOrder[2]}}

NextMulti ==
  \/ \E t \in MultiThreads :
       \/ Lock(t)
       \/ Unlock(t)
       \/ \E a \in MultiAdds : Add(t, "main", a[1], 1, a[2])
       \/ Drain(t, "main")
       \/ HeldStep(t)
  \/ \E a \in MultiAdds : Add("t1", "staging", a[1], 1, a[2])
  \/ AppendStaging("t1")

SpecMulti == Init /\ [][NextMulti]_vars

\* SpecSteal: the shared collection alone, filled by add and emptied by
\* stealItems and drain, with the paths and flags of SpecAppend.
NextSteal ==
  \/ CollectionStep("t1", {"main"}, AppendPaths, AppendFlags, {1})
  \/ HeldStep("t1")

SpecSteal == Init /\ [][NextSteal]_vars

\* SpecFrame: the shared collection with a directory, its child and a cookie
\* in it, plain and RECURSIVE, at two timestamps; the staging collection
\* takes the directory at the later one, to be appended.
FrameTimes == {1, 2}

NextFrame ==
  \/ CollectionStep("t1", {"main"}, AppendPaths, AppendFlags, FrameTimes)
  \/ \E flags \in AppendFlags : Add("t1", "staging", KeyOrder[1], 2, flags)
  \/ AppendStaging("t1")

SpecFrame == Init /\ [][NextFrame]_vars

\* SpecSync: producers that add and ping, consumers that wait and steal.
Producers == {"t3"}

Consumers == {"t1", "t2"}

SyncPaths == {KeyOrder[1]}

SyncFlags == {{W_PENDING_RECURSIVE}}

NextSync ==
  \/ \E t \in Producers :
       \/ Lock(t)
       \/ \E path \in SyncPaths, flags \in SyncFlags : Add(t, "main", path, 1, flags)
       \/ BasePing(t)
       \/ Ping(t)
       \/ PingNotify(t)
  \/ \E t \in Consumers :
       \/ \E timeout \in Timeouts : LockAndWait(t, timeout)
       \/ Wait(t)
       \/ Timeout(t)
       \/ SpuriousWake(t)
       \/ Wake(t)
       \/ StealItems(t)
       \/ CheckAndResetPinged(t)
       \/ Release(t)
  \/ \E t \in Producers \cup Consumers : Unlock(t)

SpecSync == Init /\ [][NextSync]_vars

\* SpecShare: a producer that adds a directory and its child, pruning and
\* obsoleting, and pings under the lock; two consumers that wait without
\* timeout, steal what is pending, also while they hold earlier chains, and
\* let go of chains.
SharePaths == {KeyOrder[1], KeyOrder[2]}

NextShare ==
  \/ \E t \in Producers :
       \/ Lock(t)
       \/ \E path \in SharePaths, flags \in SyncFlags : Add(t, "main", path, 1, flags)
       \/ BasePing(t)
  \/ \E t \in Consumers :
       \/ LockAndWait(t, NoTimeout)
       \/ Wait(t)
       \/ SpuriousWake(t)
       \/ Wake(t)
       \/ StealItems(t)
       \/ Release(t)
  \/ \E t \in Producers \cup Consumers : Unlock(t)

SpecShare == Init /\ [][NextShare]_vars

\* SpecNotify: one consumer that waits and steals, and a producer that uses
\* every operation of the collection: it adds to the shared collection and
\* drains it, fills a staging collection and appends it, and pings.
NotifyPaths == {KeyOrder[1], KeyOrder[2]}

NotifyFlags == {{W_PENDING_RECURSIVE}}

NextNotify ==
  \/ \E t \in Producers :
       \/ Lock(t)
       \/ Unlock(t)
       \/ \E c \in Colls, path \in NotifyPaths, flags \in NotifyFlags :
            Add(t, c, path, 1, flags)
       \/ Drain(t, "main")
       \/ AppendStaging(t)
       \/ BasePing(t)
       \/ Ping(t)
       \/ PingNotify(t)
  \/ \E t \in {"t1"} :
       \/ \E timeout \in Timeouts : LockAndWait(t, timeout)
       \/ Wait(t)
       \/ Timeout(t)
       \/ SpuriousWake(t)
       \/ Wake(t)
       \/ StealItems(t)
       \/ Release(t)
       \/ Unlock(t)

SpecNotify == Init /\ [][NextNotify]_vars

\* SpecWakeFair: the producer and the consumers of SpecSync without the
\* calls that take entries away, under fair scheduling.  A thread that has
\* set the flag goes on to notify, a thread that holds the lock lets go of
\* it (a caller releases the lock it was returned, a waiter reaches
\* cond_.wait), and a woken thread for which the mutex is free again and
\* again gets it.  Nothing is assumed of timeouts and of wakeups without
\* cause.
NextWake ==
  \/ \E t \in Producers :
       \/ Lock(t)
       \/ \E path \in SyncPaths, flags \in SyncFlags : Add(t, "main", path, 1, flags)
       \/ Drain(t, "main")
       \/ BasePing(t)
       \/ Ping(t)
       \/ PingNotify(t)
  \/ \E t \in Consumers :
       \/ \E timeout \in Timeouts : LockAndWait(t, timeout)
       \/ Wait(t)
       \/ Timeout(t)
       \/ SpuriousWake(t)
       \/ Wake(t)
  \/ \E t \in Producers \cup Consumers : Unlock(t)

SpecWakeFair ==
  /\ Init
  /\ [][NextWake]_vars
  /\ \A t \in AllThreads :
       /\ WF_vars(PingNotify(t))
       /\ WF_vars(Unlock(t))
       /\ WF_vars(Wait(t))
       /\ SF_vars(Wake(t))

----------------------------------------------------------------------------
\* Vocabulary of the properties.

\* PendingCollectionBase::size()
size(c) == art_size(tree_[c])

\* The keys pending in collection c, and the flags of the entry under a key.
Pending(c) == {k \in AllPaths : tree_[c][k] # NULL}

EntryFlags(c, key) == heap[tree_[c][key]].flags

\* The same two after the step.
sizeNext(c) == art_size(tree_'[c])

EntryFlagsNext(c, key) == heap'[tree_'[c][key]].flags

\* The entries of the list of collection c, head first.
List(c) == ListOf(heap, pending_[c])

\* What a caller can see of an entry, of a chain and of a collection m: the
\* entries' paths, timestamps and flags in list order, and the entry the
\* index holds under each key.
EntryOf(h, p) == [path |-> h[p].path, now |-> h[p].now, flags |-> h[p].flags]

Entries(h, p) == LET l == ListOf(h, p) IN [i \in DOMAIN l |-> EntryOf(h, l[i])]

View(m) ==
  [list |-> Entries(m.heap, m.pending),
   index |-> [k \in AllPaths |->
                IF m.tree[k] = NULL THEN << >> ELSE <<EntryOf(m.heap, m.tree[k])>>]]

\* add(e.path, e.now, e.flags) for the entries es[i], es[i+1], ... in turn.
RECURSIVE addEach(_, _, _)
addEach(m, es, i) ==
  IF i > Len(es) THEN m
  ELSE addEach(add(m, es[i].path, es[i].now, es[i].flags), es, i + 1)

\* The paths of the entries of a view's list, in list order.
PathsOf(v) == [i \in DOMAIN v.list |-> v.list[i].path]

\* P is a directory prefix of Q: Q starts with P, and ends there or goes on
\* with a path separator.
IsDirPrefix(P, Q) ==
  /\ startsWith(Q, P)
  /\ Len(P) = Len(Q) \/ Q[Len(P) + 1] = "/"

IsAncestor(P, Q) == IsDirPrefix(P, Q) /\ Len(Q) > Len(P)

\* The pending entries of c that a RECURSIVE notification for P supersedes.
Prunable(c, P) ==
  {k \in Pending(c) : /\ W_PENDING_CRAWL_ONLY \notin EntryFlags(c, k)
                      /\ IsAncestor(P, k)
                      /\ ~isPossiblyACookie(k)}

\* The effective flags trigger child pruning.
Prunes(flags) ==
  flags \cap {W_PENDING_RECURSIVE, W_PENDING_CRAWL_ONLY} = {W_PENDING_RECURSIVE}

NoRepeat(s) == \A i, j \in DOMAIN s : i # j => s[i] # s[j]

Decreasing(s) == \A i, j \in DOMAIN s : i < j => s[i] > s[j]

Dir == KeyOrder[1]
Child == KeyOrder[2]
GrandChild == KeyOrder[3]
Cookie == KeyOrder[4]
Sibling == KeyOrder[5]

----------------------------------------------------------------------------
\* C1: in every collection, after any sequence of add, append, stealItems
\* and drain by threads that interleave, the entries reachable from the list head are exactly the
\* entries stored in the index, each stored under its own path, and no entry
\* and no path occurs twice in the list or in the index.
C1_ListMatchesIndex ==
  \A c \in Colls :
    LET list == List(c)
    IN  /\ Len(list) <= MaxEntries
        /\ NoRepeat(list)
        /\ Range(list) = {tree_[c][k] : k \in Pending(c)}
        /\ \A k \in Pending(c) :
             heap[tree_[c][k]].live /\ heap[tree_[c][k]].path = k
        /\ \A i, j \in DOMAIN list :
             i # j => heap[list[i]].path # heap[list[j]].path
        /\ \A k1, k2 \in Pending(c) : k1 # k2 => tree_[c][k1] # tree_[c][k2]

\* One thread holds a chain it stole; the other has added the child after
\* that and has then appended a RECURSIVE directory: the child is gone, the
\* directory is listed.
C1_Witness ==
  /\ last.op = "append"
  /\ last.pruned = 1
  /\ lockHolder = "t1"
  /\ stolen["t2"] # {}
  /\ Pending("main") = {Dir}
  /\ W_PENDING_RECURSIVE \in EntryFlags("main", Dir)
  /\ Len(List("main")) = 1

\* C2 as claimed: an add that finds its path pending leaves the entry with
\* the flags it had OR-ed with all the flags of the add.
C2_FlagsAreOred ==
  [][\A now \in FlagTimes, flags \in SUBSET kFlags :
       (last'.op = "consolidate" /\ Add("t1", "main", last'.path, now, flags))
         => /\ tree_'["main"][last'.path] # NULL
            /\ EntryFlagsNext("main", last'.path)
                 = EntryFlags("main", last'.path) \cup flags]_vars

\* C2, amended: an add that finds its path pending leaves the single entry
\* for the path with the flags it had OR-ed with the CRAWL_ONLY, RECURSIVE
\* and IS_DESYNCED flags of the add; VIA_NOTIFY is not merged.
C2_FlagsAreOredMasked ==
  [][\A now \in FlagTimes, flags \in SUBSET kFlags :
       (last'.op = "consolidate" /\ Add("t1", "main", last'.path, now, flags))
         => /\ tree_'["main"][last'.path] # NULL
            /\ EntryFlagsNext("main", last'.path)
                 = EntryFlags("main", last'.path)
                     \cup (flags \ {W_PENDING_VIA_NOTIFY})]_vars

\* The second add of the child has merged RECURSIVE into VIA_NOTIFY.
C2_Witness ==
  /\ last.op = "consolidate"
  /\ last.path = Child
  /\ EntryFlags("main", Child) = {W_PENDING_VIA_NOTIFY, W_PENDING_RECURSIVE}

\* C3 as claimed: an add that finds its path pending leaves size() as it was.
C3_SizeUnchanged ==
  [][last'.op = "consolidate" => sizeNext(last'.c) = size(last'.c)]_vars

\* C3, amended: an add that finds its path P pending lowers size() by the
\* number of entries that the merged flags of P supersede (none unless they
\* hold RECURSIVE without CRAWL_ONLY) and changes it in no other way.
C3_SizeDropsByPruned ==
  [][last'.op = "consolidate" =>
       LET c == last'.c
           P == last'.path
       IN  sizeNext(c) = size(c) - (IF Prunes(EntryFlagsNext(c, P))
                                   THEN Cardinality(Prunable(c, P)) ELSE 0)]_vars

\* A consolidating add has pruned one of three entries.
C3_Witness ==
  /\ last.op = "consolidate"
  /\ last.pruned = 1
  /\ size("main") = 2

\* C4 as claimed: an add of a path that is not pending and not a cookie,
\* while some RECURSIVE entry for an ancestor directory is pending, creates
\* no entry.
C4_ObsoletedByAnyAncestor ==
  [][(/\ last'.op \in {"insert", "obsoleted"}
      /\ ~isPossiblyACookie(last'.path)
      /\ \E k \in Pending(last'.c) :
           /\ W_PENDING_RECURSIVE \in EntryFlags(last'.c, k)
           /\ IsAncestor(k, last'.path))
       => tree_'[last'.c][last'.path] = NULL]_vars

\* C5: after an add has inserted or consolidated an entry for P with
\* effective flags that hold RECURSIVE without CRAWL_ONLY, no entry without
\* CRAWL_ONLY for a non-cookie strict descendant of P is left in the index
\* or in the list.
C5_NoPrunableChildLeft ==
  (/\ last.op \in {"insert", "consolidate"}
   /\ Prunes(EntryFlags(last.c, last.path)))
    => /\ Prunable(last.c, last.path) = {}
       /\ \A i \in Range(List(last.c)) :
            ~(/\ W_PENDING_CRAWL_ONLY \notin heap[i].flags
              /\ IsAncestor(last.path, heap[i].path)
              /\ ~isPossiblyACookie(heap[i].path))

\* A RECURSIVE add of the directory has pruned two descendants.
C5_Witness ==
  /\ last.op = "insert"
  /\ last.path = Dir
  /\ Prunes(EntryFlags("main", Dir))
  /\ last.pruned = 2

\* C6: an add or append never discards a cookie path (the cookie is pending
\* afterwards), and a pending cookie entry leaves a collection only by
\* stealItems, by drain, or as an entry of the source of an append.
C6_CookieKept ==
  [][/\ (last'.op \in AddOutcomes /\ isPossiblyACookie(last'.path))
          => tree_'[last'.c][last'.path] # NULL
     /\ last'.op = "append" =>
          \A k \in Pending("staging") :
            isPossiblyACookie(k) => tree_'["main"][k] # NULL
     /\ \A c \in Colls : \A k \in Pending(c) :
          (isPossiblyACookie(k) /\ tree_'[c][k] = NULL)
            => \/ last'.op \in {"stealItems", "drain"}
               \/ last'.op = "append" /\ c = "staging"]_vars

\* A cookie has been added under a pending RECURSIVE directory.
C6_Witness ==
  /\ last.op = "insert"
  /\ last.path = Cookie
  /\ tree_[last.c][Dir] # NULL
  /\ W_PENDING_RECURSIVE \in EntryFlags(last.c, Dir)

\* C7: an add is discarded only when a pending RECURSIVE entry is a
\* directory prefix of its path, and an add for P removes only entries
\* whose paths have P as a directory prefix: a path that merely shares
\* bytes with another neither obsoletes nor prunes it.
C7_SiblingsUntouched ==
  [][/\ last'.op = "obsoleted" =>
          \E k \in Pending(last'.c) :
            /\ W_PENDING_RECURSIVE \in EntryFlags(last'.c, k)
            /\ IsDirPrefix(k, last'.path)
     /\ last'.op \in AddOutcomes =>
          \A q \in Pending(last'.c) :
            tree_'[last'.c][q] = NULL => IsDirPrefix(last'.path, q)]_vars

\* A RECURSIVE add of /a has pruned a child and left the sibling /ab.
C7_Witness ==
  /\ last.op = "insert"
  /\ last.path = Dir
  /\ Prunes(EntryFlags("main", Dir))
  /\ last.pruned >= 1
  /\ tree_["main"][Sibling] # NULL

\* C8: objects are named by their rank of creation, so in a collection that
\* only add has filled the list, and every chain stealItems returned, runs
\* from the entry created last to the entry created first.
C8_LifoOrder ==
  /\ Decreasing(List("main"))
  /\ \A t \in AllThreads : \A p \in stolen[t] : Decreasing(ListOf(heap, p))

\* stealItems has returned a chain of three entries.
C8_Witness ==
  /\ last.op = "stealItems"
  /\ \E p \in stolen["t1"] : Len(ListOf(heap, p)) = 3

\* C9 as claimed: stealItems leaves size() = 0 and no list head, and a
\* checkAndResetPinged that follows it with no ping in between returns false.
C9_StealThenCheckIsFalse ==
  [][/\ last'.op = "stealItems" =>
          sizeNext("main") = 0 /\ pending_'["main"] = NULL
     /\ (last.op = "stealItems" /\ last'.op = "checkAndResetPinged")
          => last'.ret = FALSE]_vars

\* C9, amended: stealItems leaves size() = 0 and no list head and does not
\* touch the pinged flag; a checkAndResetPinged that follows it with no
\* ping in between returns the flag as it was when stealItems was called:
\* false if no ping was pending then, true if one was.
C9_StealThenCheckIsFlag ==
  [][/\ last'.op = "stealItems" =>
          /\ sizeNext("main") = 0
          /\ pending_'["main"] = NULL
          /\ pinged_' = pinged_
     /\ (last.op = "stealItems" /\ last'.op = "checkAndResetPinged")
          => last'.ret = pinged_]_vars

\* A consumer has stolen the entries and its check has then returned false.
C9_Witness ==
  /\ last.op = "checkAndResetPinged"
  /\ last.ret = FALSE
  /\ \E t \in Consumers : lockHolder = t /\ stolen[t] # {}

\* C10: a lockAndWait that takes the lock while the pinged flag is set or
\* an entry is pending returns at once, without waiting, with the lock held
\* and wasPinged true, whatever its timeout.
C10_NoWaitWhenPingedOrPending ==
  [][\A t \in Consumers, timeout \in Timeouts :
       (LockAndWait(t, timeout) /\ (pinged_ \/ pending_["main"] # NULL))
         => /\ pc'[t] = "locked"
            /\ lockHolder' = t
            /\ pinged'[t] = TRUE]_vars

\* lockAndWait has returned at once because of an entry added before it,
\* with no ping pending.
C10_Witness ==
  /\ last.op = "lockAndWait"
  /\ last.ret = TRUE
  /\ pending_["main"] # NULL
  /\ \E t \in Consumers : lockHolder = t /\ pc[t] = "locked" /\ pinged[t]

\* C11 as claimed: no lost wakeup.  A consumer blocked in a lockAndWait
\* without timeout is never left blocked while the pinged flag is set and no
\* ping is still on its way to notify: in such a state the ping that set
\* the flag will not wake it, and nothing but a further ping, or a wakeup
\* without cause, ever would.
C11_NoLostWakeup ==
  \A t \in Consumers :
    ~(/\ pc[t] = "blocked"
      /\ timeoutms[t] = NoTimeout
      /\ pinged_
      /\ \A p \in AllThreads : pc[p] # "ping_notify")

\* C12: broadcast wake.  Under fair scheduling every thread that is blocked
\* in lockAndWait when a ping is under way, and every thread the broadcast
\* has woken, reacquires the lock and returns from lockAndWait.
C12_BroadcastWakesAll ==
  \A t \in Consumers :
    (\/ pc[t] = "blocked" /\ \E p \in AllThreads : pc[p] = "ping_notify"
     \/ pc[t] \in Woken)
      ~> (pc[t] = "locked" /\ lockHolder = t)

\* A ping has woken two threads that were blocked without timeout.
C12_Witness ==
  /\ \A t \in Consumers : pc[t] = "woken" /\ timeoutms[t] = NoTimeout
  /\ last.op = "ping"

\* C13: a thread blocked on the condition variable (or woken and not yet
\* back in possession of the mutex) does not hold the lock; at most one
\* thread is inside the lock at any time, and it is the holder of the mutex;
\* lockAndWait returns with the lock held, from its pre-check (which
\* succeeds exactly when the flag is set or an entry is pending) and from
\* its wait, however the wait ended.
C13_BlockedHoldsNoLock ==
  /\ [](/\ \A t \in AllThreads :
            /\ pc[t] \in {"blocked"} \cup Woken => lockHolder # t
            /\ pc[t] \in {"locked", "lw_wait"} <=> lockHolder = t
        /\ Cardinality({t \in AllThreads : pc[t] \in {"locked", "lw_wait"}}) <= 1)
  /\ [][\A t \in Consumers :
          /\ Wake(t) => lockHolder' = t /\ pc'[t] = "locked"
          /\ \A timeout \in Timeouts :
               LockAndWait(t, timeout)
                 => /\ lockHolder' = t
                    /\ pc'[t] = "locked" <=> (pinged_ \/ pending_["main"] # NULL)]_vars

\* While a consumer is blocked the producer has taken the lock and its add
\* has created an entry.
C13_Witness ==
  /\ \E t \in Consumers : pc[t] = "blocked"
  /\ \E p \in Producers : lockHolder = p /\ pc[p] = "locked"
  /\ last.op = "insert"

\* C14: append(src) leaves the target as the adds of the entries of src,
\* taken from the head of src's list to its tail, would leave it (the same
\* pending paths with the same timestamps and flags, in the same list
\* order), and leaves src with size 0 and no list head.
C14_AppendIsAddEach ==
  [][AppendStaging("t1") =>
       LET es == Entries(heap, pending_["staging"])
           target == [heap |-> destroy(heap, pending_["staging"]),
                      pending |-> pending_["main"],
                      tree |-> tree_["main"]]
           after == [heap |-> heap', pending |-> pending_'["main"],
                     tree |-> tree_'["main"]]
       IN  /\ View(after) = View(addEach(target, es, 1))
           /\ sizeNext("staging") = 0
           /\ pending_'["staging"] = NULL]_vars

\* An append of two entries onto a collection of one has left three, the
\* entry of the target last in the list.
C14_Witness ==
  /\ last.op = "append"
  /\ Len(List("main")) = 3
  /\ heap[List("main")[3]].path = Dir
  /\ pending_["staging"] = NULL

\* C15: under every interleaving of adding producers and of consumers that
\* wait and steal, the entries that exist are split between the pending list
\* and the chains the consumers hold: each is in exactly one of them, once.
\* stealItems hands the whole pending list to its caller and leaves nothing
\* pending, and a chain that a consumer holds stays as it was stolen until
\* the consumer lets go of it.
C15_StolenOrPending ==
  /\ [](LET held == UNION {stolen[t] : t \in AllThreads}
            chain(p) == ListOf(heap, p)
            main == List("main")
        IN  /\ NoRepeat(main)
            /\ \A t \in AllThreads : \A u \in AllThreads \ {t} :
                 stolen[t] \cap stolen[u] = {}
            /\ \A p \in held :
                 /\ chain(p) # << >>
                 /\ NoRepeat(chain(p))
                 /\ Range(chain(p)) \cap Range(main) = {}
                 /\ \A q \in held \ {p} :
                      Range(chain(p)) \cap Range(chain(q)) = {}
            /\ {i \in Ids : heap[i].live}
                 = Range(main) \cup UNION {Range(chain(p)) : p \in held})
  /\ [][\A t \in Consumers :
          /\ StealItems(t) =>
               /\ stolen'[t] = stolen[t] \cup ({pending_["main"]} \ {NULL})
               /\ \A p \in stolen'[t] : Entries(heap', p) = Entries(heap, p)
               /\ pending_'["main"] = NULL
               /\ sizeNext("main") = 0
          /\ ~Release(t) =>
               /\ Cardinality(stolen'[t]) >= Cardinality(stolen[t])
               /\ {Entries(heap, p) : p \in stolen[t]}
                    \subseteq {Entries(heap', p) : p \in stolen'[t]}]_vars

\* Each consumer holds a chain it stole, and one of them, by the stealItems
\* that has just returned, a second one next to its first.
C15_Witness ==
  /\ \A t \in Consumers : stolen[t] # {}
  /\ \E t \in Consumers : Cardinality(stolen[t]) = 2 /\ lockHolder = t
  /\ pending_["main"] = NULL
  /\ last.op = "stealItems"

\* C16: an add that leaves its path P with both RECURSIVE and CRAWL_ONLY
\* (created so, or merged so by consolidation) removes no entry, and no add
\* removes an entry that carries CRAWL_ONLY.
C16_CrawlOnlyNeitherPrunesNorPruned ==
  [][last'.op \in {"insert", "consolidate"} =>
       LET c == last'.c
           P == last'.path
       IN  /\ {W_PENDING_RECURSIVE, W_PENDING_CRAWL_ONLY}
                 \subseteq EntryFlagsNext(c, P)
               => \A k \in Pending(c) : tree_'[c][k] # NULL
           /\ \A k \in Pending(c) :
                W_PENDING_CRAWL_ONLY \in EntryFlags(c, k) => tree_'[c][k] # NULL]_vars

\* add(/a, RECURSIVE) has been merged onto a CRAWL_ONLY entry for /a and
\* has left the plain child /a/b pending.
C16_Witness ==
  /\ last.op = "consolidate"
  /\ last.path = Dir
  /\ EntryFlags("main", Dir) = {W_PENDING_RECURSIVE, W_PENDING_CRAWL_ONLY}
  /\ tree_["main"][Child] # NULL
  /\ EntryFlags("main", Child) = {}

\* C17: the pruning loop for any path P, run on any collection the program
\* can be in, ends: every scan that is aborted removes exactly one entry, from
\* the index and from the list, so the scans that are aborted are at most as
\* many as the keys under P at the start, and the last scan goes over every
\* key left under P and removes none.
C17_PruneLoopTerminates ==
  \A P \in AllPaths :
    LET scans == pruneScans(M("main"), P)
        n == Len(art_iterPrefix(tree_["main"], P))
        end == scans[Len(scans)]
        done == pruneLoop(M("main"), P, 0)
    IN  /\ \A i \in 1..(Len(scans) - 1) :
             /\ art_size(scans[i + 1].tree) = art_size(scans[i].tree) - 1
             /\ Len(ListOf(scans[i + 1].heap, scans[i + 1].pending))
                  = Len(ListOf(scans[i].heap, scans[i].pending)) - 1
             /\ {scans[i + 1].heap[p].path :
                   p \in Range(ListOf(scans[i + 1].heap, scans[i + 1].pending))}
                  = {k \in AllPaths : scans[i + 1].tree[k] # NULL}
        /\ Len(scans) - 1 <= n
        /\ done.pruned = Len(scans) - 1
        /\ done.m = end
        /\ iterPrefix(end, P) = [m |-> end, ret |-> 0]
        /\ \A k \in Range(art_iterPrefix(end.tree, P)) :
             ~pruneCallback(end, P, k, end.tree[k])

\* A consolidating add has pruned two entries: its loop ran three scans.
C17_Witness ==
  /\ last.op = "consolidate"
  /\ last.pruned = 2
  /\ size("main") = 1

\* C18 as claimed: add, append, stealItems and drain leave the pinged flag
\* as it is and wake nobody: a thread that is blocked stays blocked over
\* each of them.  A thread blocked without timeout leaves the wait only in
\* a step of a ping that notifies, also when the list has become non-empty.
C18_AddWakesNobody ==
  [][/\ (\E t \in AllThreads :
            \/ \E c \in Colls, path \in NotifyPaths, flags \in NotifyFlags :
                 Add(t, c, path, 1, flags)
            \/ AppendStaging(t)
            \/ StealItems(t)
            \/ Drain(t, "main"))
          => /\ pinged_' = pinged_
             /\ \A u \in AllThreads : pc[u] = "blocked" => pc'[u] = "blocked"
     /\ \A u \in AllThreads :
          (pc[u] = "blocked" /\ timeoutms[u] = NoTimeout /\ pc'[u] # "blocked")
            => \E p \in Producers : PingNotify(p) \/ BasePing(p)]_vars

\* C18, amended: add, append, stealItems and drain leave the pinged flag as
\* it is and wake nobody: a thread that is blocked stays blocked over each
\* of them.  A thread blocked without timeout leaves the wait only in a step
\* of a ping that notifies or by a wakeup without cause, also when the list
\* has become non-empty; after a wakeup without cause its lockAndWait
\* returns true exactly when an entry is pending or the flag is set.
C18_AddNotifiesNobody ==
  [][/\ (\E t \in AllThreads :
            \/ \E c \in Colls, path \in NotifyPaths, flags \in NotifyFlags :
                 Add(t, c, path, 1, flags)
            \/ AppendStaging(t)
            \/ StealItems(t)
            \/ Drain(t, "main"))
          => /\ pinged_' = pinged_
             /\ \A u \in AllThreads : pc[u] = "blocked" => pc'[u] = "blocked"
     /\ \A u \in AllThreads :
          /\ (pc[u] = "blocked" /\ timeoutms[u] = NoTimeout /\ pc'[u] # "blocked")
               => \/ \E p \in Producers : PingNotify(p) \/ BasePing(p)
                  \/ SpuriousWake(u)
          /\ (pc[u] = "spurious" /\ Wake(u))
               => pinged'[u] = (pending_["main"] # NULL \/ pinged_)]_vars

\* The producer has added an entry and let go of the lock; the consumer,
\* waiting without timeout, is still blocked, and no ping has been issued.
C18_Witness ==
  /\ pc["t1"] = "blocked"
  /\ timeoutms["t1"] = NoTimeout
  /\ pending_["main"] # NULL
  /\ ~pinged_
  /\ lockHolder = NoThread
  /\ last.op = "insert"

\* C19 as claimed: with the list empty, of several threads that one ping
\* has woken the first to get the lock back returns wasPinged true, and a
\* woken thread that returns after it returns false.
C19_FirstWokenReturnsTrue ==
  [][\A t \in Consumers :
       (Wake(t) /\ pending_["main"] = NULL)
         => /\ (\A u \in Consumers : pc[u] = "woken") => pinged'[t] = TRUE
            /\ (pc[t] = "woken" /\ last.op = "lockAndWait:woken" /\ last.ret)
                 => pinged'[t] = FALSE]_vars

\* C19, amended: with the list empty a ping is consumed by the first check
\* that runs after it has set the flag, be it the pre-check of a lockAndWait
\* or the check of a thread that returns from its wait: that check returns
\* true and clears the flag.  A thread that returns from its wait returns
\* the flag as it finds it: false when another check was the last call on
\* the collection, so of the threads one ping woke at most one returns true.
C19_FirstCheckConsumesPing ==
  [][\A t \in Consumers :
       /\ (Wake(t) /\ pending_["main"] = NULL)
            => /\ pinged'[t] = pinged_
               /\ pinged_' = FALSE
               /\ last.op = "ping" => pinged'[t] = TRUE
               /\ last.op \in {"lockAndWait", "lockAndWait:woken",
                                "checkAndResetPinged"} => pinged'[t] = FALSE
       /\ \A timeout \in Timeouts :
            (LockAndWait(t, timeout) /\ pending_["main"] = NULL /\ last.op = "ping")
              => pinged'[t] = TRUE /\ pinged_' = FALSE /\ pc'[t] = "locked"]_vars

\* Of two threads, one's lockAndWait has returned wasPinged true; the
\* other, woken from a wait without timeout, has then returned false.
C19_Witness ==
  /\ last.op = "lockAndWait:woken"
  /\ last.ret = FALSE
  /\ pending_["main"] = NULL
  /\ \E t \in Consumers, u \in Consumers :
       /\ t # u
       /\ lockHolder = u /\ pc[u] = "locked"
       /\ ~pinged[u] /\ timeoutms[u] = NoTimeout
       /\ pc[t] = "idle" /\ pinged[t]

\* C20: consolidation changes flags and prunable descendants only.  When an
\* add for P, or the append of a source that holds P alone, finds P pending,
\* the entry for P keeps its timestamp, the entries that the merged flags of
\* P supersede are removed, every other entry stays as it was, none is
\* added, and the entries that are left keep their order in the list.
C20_ConsolidationFrame ==
  [][\A P \in AppendPaths :
       (\/ last'.op = "consolidate" /\ last'.c = "main" /\ last'.path = P
        \/ /\ AppendStaging("t1")
           /\ PathsOf(View(M("staging"))) = <<P>>
           /\ tree_["main"][P] # NULL)
         => LET before == View(M("main"))
                after == View([heap |-> heap', pending |-> pending_'["main"],
                               tree |-> tree_'["main"]])
                gone == IF Prunes(EntryFlagsNext("main", P))
                        THEN Prunable("main", P) ELSE {}
            IN  /\ after.index[P] # << >>
                /\ after.index[P][1].now = before.index[P][1].now
                /\ after.index[P][1].path = P
                /\ before.index[P][1].flags \subseteq after.index[P][1].flags
                /\ \A k \in AllPaths \ {P} :
                     after.index[k] = IF k \in gone THEN << >> ELSE before.index[k]
                /\ PathsOf(after)
                     = SelectSeq(PathsOf(before), LAMBDA k : k \notin gone)
                /\ \A i \in DOMAIN after.list :
                     <<after.list[i]>> = after.index[after.list[i].path]]_vars

\* An append of the directory, RECURSIVE and stamped 2, onto a collection
\* that held the directory, stamped 1, and its child: the entry has kept its
\* timestamp and has become RECURSIVE, and the child is gone.
C20_Witness ==
  /\ last.op = "append"
  /\ last.path = Dir
  /\ last.pruned = 1
  /\ View(M("main")).list = <<[path |-> Dir, now |-> 1,
                               flags |-> {W_PENDING_RECURSIVE}]>>
  /\ pending_["staging"] = NULL

====
